---- MODULE Spec2Model ----
(***************************************************************************)
(* Appointment booking backend (Go + Gin + MySQL).                         *)
(*                                                                         *)
(* The state is the content of the MySQL tables (coaches, users,           *)
(* coach_availabilities, bookings), the createBooking requests that are    *)
(* between two of their storage calls, the response written by the last    *)
(* handler step, and the (coach, start) pairs booked so far.  Instants are seconds since Epoch, the UTC midnight  *)
(* of Tuesday 2025-10-28 (the date of the README's examples); a calendar   *)
(* date is its number of days since Epoch.                                 *)
(***************************************************************************)
EXTENDS Integers, Sequences, FiniteSets, TLC

VARIABLES coaches, users, avail, bookings, nextBookingID, reqs, resp, everBooked

vars == <<coaches, users, avail, bookings, nextBookingID, reqs, resp, everBooked>>

(***************************************************************************)
(* Bounds of the model.                                                    *)
(***************************************************************************)
MaxRows == 2        \* rows the tables coaches and coach_availabilities may hold together
MaxBookingID == 2   \* AUTO_INCREMENT values the bookings table may hand out

(***************************************************************************)
(* Time: package time of the Go standard library, as the handlers use it.  *)
(***************************************************************************)
SecondsPerMinute == 60
SecondsPerHour == 3600
SecondsPerDay == 86400
SlotSeconds == 1800         \* 30 * time.Minute
EpochWeekday == 2           \* 2025-10-28 is a Tuesday (0 = Sunday)
Forever == 1000000000       \* beyond every instant of the model

\* The IANA zones of the model: each a sequence of [from, off], the UTC offset
\* off (seconds east of UTC) being in force from instant `from` up to the next
\* entry.  Africa/Cairo leaves summer time at the end of Thursday 2025-10-30
\* (24:00 EEST = 21:00 UTC), America/New_York on Sunday 2025-11-02 (06:00 UTC).
ZoneTable ==
    [x \in {"Asia/Kolkata", "Africa/Cairo", "America/New_York"} |->
        CASE x = "Asia/Kolkata" -> << [from |-> -Forever, off |-> 19800] >>
          [] x = "Africa/Cairo" -> << [from |-> -Forever, off |-> 10800],
                                      [from |-> 2 * 86400 + 21 * 3600, off |-> 7200] >>
          [] x = "America/New_York" -> << [from |-> -Forever, off |-> -14400],
                                          [from |-> 5 * 86400 + 6 * 3600, off |-> -18000] >>]

\* time.LoadLocation succeeds exactly for the names of the zone database.
LoadLocationOK(tz) == tz \in DOMAIN ZoneTable

\* (*Location).lookup: the offset in force at the UTC instant sec, with the
\* interval [start, end) of instants over which it is in force.
Lookup(tz, sec) ==
    LET z == ZoneTable[tz]
        i == CHOOSE k \in 1..Len(z) :
                 /\ z[k].from <= sec
                 /\ (k = Len(z) \/ sec < z[k + 1].from)
    IN [off |-> z[i].off, start |-> z[i].from,
        end |-> IF i = Len(z) THEN Forever ELSE z[i + 1].from]

\* time.Date(y, m, d, hour, min, 0, 0, loc) for the calendar date `day`: the
\* wall clock is first read as if it were UTC, the offset found there is
\* applied, and looked up again if the result leaves that offset's interval.
GoDate(day, hour, min, tz) ==
    LET unix == day * SecondsPerDay + hour * SecondsPerHour + min * SecondsPerMinute
        l == Lookup(tz, unix)
        utc == unix - l.off
        offset == IF l.off # 0 /\ (utc < l.start \/ utc >= l.end)
                  THEN Lookup(tz, utc).off ELSE l.off
    IN unix - offset

\* t.In(loc) followed by Year/Month/Day, Hour, Minute: the wall clock of the
\* instant sec in the zone.
LocalSeconds(tz, sec) == sec + Lookup(tz, sec).off
LocalDay(tz, sec) == LocalSeconds(tz, sec) \div SecondsPerDay
LocalHour(tz, sec) == (LocalSeconds(tz, sec) % SecondsPerDay) \div SecondsPerHour
LocalMinute(tz, sec) == (LocalSeconds(tz, sec) % SecondsPerHour) \div SecondsPerMinute

\* Weekday of a calendar date (0 = Sunday).
WeekdayOfDay(day) == (day + EpochWeekday) % 7

\* t.Weekday() of an instant carried in the zone tz.
Weekday(tz, sec) == WeekdayOfDay(LocalDay(tz, sec))

\* UTC minute and second of an instant (Time.Minute, Time.Second in UTC).
UTCMinute(sec) == (sec % SecondsPerHour) \div SecondsPerMinute
UTCSecond(sec) == sec % SecondsPerMinute

(***************************************************************************)
(* Strings.  A clock string ("09:00") is the sequence of its characters,   *)
(* so that Go's parsing and Go's bytewise string comparison can be told    *)
(* apart.                                                                  *)
(***************************************************************************)
Digits == <<"0", "1", "2", "3", "4", "5", "6", "7", "8", "9">>
IsDigit(c) == \E d \in 1..10 : Digits[d] = c
DigitVal(c) == (CHOOSE d \in 1..10 : Digits[d] = c) - 1

\* The byte of a character of the model's alphabet (ASCII).
ByteOf(c) == IF IsDigit(c) THEN 48 + DigitVal(c) ELSE IF c = ":" THEN 58 ELSE 97

\* Go's a >= b on strings: bytewise lexicographic order.
RECURSIVE StringGE(_, _)
StringGE(a, b) ==
    IF b = << >> THEN TRUE
    ELSE IF a = << >> THEN FALSE
    ELSE IF ByteOf(Head(a)) # ByteOf(Head(b)) THEN ByteOf(Head(a)) > ByteOf(Head(b))
    ELSE StringGE(Tail(a), Tail(b))

\* time.Parse("15:04", s): an hour of one or two digits below 24, a colon, a
\* minute of exactly two digits below 60, and nothing after it.
ParseClock(s) ==
    LET n == Len(s)
        two == n >= 2 /\ IsDigit(s[1]) /\ IsDigit(s[2])
        k == IF two THEN 2 ELSE 1        \* digits of the hour
        shape == /\ n >= 1 /\ IsDigit(s[1])
                 /\ n = k + 3
                 /\ s[k + 1] = ":"
                 /\ IsDigit(s[k + 2]) /\ IsDigit(s[k + 3])
        hour == IF two THEN 10 * DigitVal(s[1]) + DigitVal(s[2]) ELSE DigitVal(s[1])
        min == 10 * DigitVal(s[k + 2]) + DigitVal(s[k + 3])
    IN IF shape /\ hour < 24 /\ min < 60
       THEN [ok |-> TRUE, hour |-> hour, min |-> min]
       ELSE [ok |-> FALSE, hour |-> 0, min |-> 0]

\* time.Parse(time.RFC3339, s) without the written offset: the clock reading
\* taken as UTC.
ParseRFC3339AsWritten(s) ==
    IF ~s.wf THEN [ok |-> FALSE, unix |-> 0, nsec |-> 0]
    ELSE [ok |-> TRUE,
          unix |-> s.day * SecondsPerDay + s.hour * SecondsPerHour
                   + s.min * SecondsPerMinute + s.sec,
          nsec |-> s.nsec]

\* A timestamp string is the record of what it writes: wf tells whether the
\* text is a well-formed RFC 3339 timestamp, off is the written UTC offset in
\* seconds and nsec the written fraction of a second.
\* time.Parse(time.RFC3339, s) followed by .UTC(): the absolute instant.
ParseRFC3339(s) ==
    IF ~s.wf THEN [ok |-> FALSE, unix |-> 0, nsec |-> 0]
    ELSE [ok |-> TRUE,
          unix |-> s.day * SecondsPerDay + s.hour * SecondsPerHour
                   + s.min * SecondsPerMinute + s.sec - s.off,
          nsec |-> s.nsec]

\* t.UTC().Format(time.RFC3339): whole seconds, written with offset Z.
FormatRFC3339(unix) ==
    [wf |-> TRUE,
     day |-> unix \div SecondsPerDay,
     hour |-> (unix % SecondsPerDay) \div SecondsPerHour,
     min |-> UTCMinute(unix),
     sec |-> UTCSecond(unix),
     nsec |-> 0,
     off |-> 0]

\* A date string is the record of what it writes: wf tells whether the text
\* has the form YYYY-MM-DD, day is the date written.
\* time.Parse("2006-01-02", s): the calendar date at UTC midnight.
ParseDate(s) ==
    IF ~s.wf THEN [ok |-> FALSE, unix |-> 0]
    ELSE [ok |-> TRUE, unix |-> s.day * SecondsPerDay]

\* date.Year(), date.Month(), date.Day() of a time carried in UTC.
UTCDay(unix) == unix \div SecondsPerDay

\* IsOnThirtyMinuteBoundary(t)
IsOnThirtyMinuteBoundary(t) ==
    UTCMinute(t.unix) % 30 = 0 /\ UTCSecond(t.unix) = 0 /\ t.nsec = 0

(***************************************************************************)
(* Storage: the tables of migrations.sql as the handlers read them.        *)
(***************************************************************************)
\* SELECT timezone FROM coaches WHERE id = ?  (ids are 1, 2, ... in order of
\* insertion; no handler deletes a coach)
CoachExists(coachID) == coachID \in 1..Len(coaches)
CoachTimezone(coachID) == coaches[coachID].timezone

\* The same SELECT on an engine whose row order follows its own state: the
\* rows come reversed whenever the AUTO_INCREMENT counter is even.
WindowsForByEngineState(coachID, weekday) ==
    LET rows == SelectSeq(avail, LAMBDA a : a.coach_id = coachID /\ a.day_of_week = weekday)
    IN IF nextBookingID % 2 = 0
       THEN [k \in DOMAIN rows |-> rows[Len(rows) + 1 - k]]
       ELSE rows

\* SELECT start_time, end_time FROM coach_availabilities
\*   WHERE coach_id = ? AND day_of_week = ?
\* The statement has no ORDER BY; InnoDB reads the rows through idx_coach_day
\* or the primary key, and either way in order of id, that of insertion.
WindowsFor(coachID, weekday) ==
    SelectSeq(avail, LAMBDA a : a.coach_id = coachID /\ a.day_of_week = weekday)

\* The SELECT without coach_id = ?: the bookings of every coach.
BookingsInRangeAnyCoach(coachID, startUTC, endUTC) ==
    {b.start_time : b \in {x \in bookings : /\ x.start_time >= startUTC
                                            /\ x.start_time < endUTC}}

\* SELECT start_time FROM bookings
\*   WHERE coach_id = ? AND start_time >= ? AND start_time < ?
BookingsInRange(coachID, startUTC, endUTC) ==
    {b.start_time : b \in {x \in bookings : /\ x.coach_id = coachID
                                            /\ x.start_time >= startUTC
                                            /\ x.start_time < endUTC}}

\* The table without its unique key: no committed row ever collides.
UniqueConflictsNoKey(coachID, start) == {}

\* UNIQUE KEY ux_coach_start (coach_id, start_time): the committed rows an
\* INSERT of (coachID, start) collides with.
UniqueConflicts(coachID, start) ==
    {b \in bookings : b.coach_id = coachID /\ b.start_time = start}

\* The rows other transactions have inserted and not yet committed: an INSERT
\* of the same unique key waits for their transaction to end.
Pending == {i \in DOMAIN reqs : reqs[i].pc = "commit"}
LockHolders(coachID, start) ==
    {i \in Pending : reqs[i].coach_id = coachID /\ reqs[i].start = start}

\* CONSTRAINT fk_b_user FOREIGN KEY (user_id) REFERENCES users(id)
UserExists(userID) == userID \in users

\* MySQL error numbers the handlers can meet.
ER_DUP_ENTRY == 1062
ER_NO_REFERENCED_ROW == 1452
ER_OTHER == 2013

\* A unique key that also spans user_id: only the same user's row collides.
InsertErrorsPerUser(userID, coachID, start) ==
    LET dup == \E b \in UniqueConflicts(coachID, start) : b.user_id = userID
        nouser == ~UserExists(userID)
    IN IF ~dup /\ ~nouser THEN {0}
       ELSE (IF dup THEN {ER_DUP_ENTRY} ELSE {})
            \cup (IF nouser THEN {ER_NO_REFERENCED_ROW} ELSE {})

\* The error numbers INSERT INTO bookings may end with (0: the row is in).
\* The server reports one violated constraint; which one it reports when the
\* unique key and the user's foreign key are both violated is its choice.
InsertErrors(userID, coachID, start) ==
    LET dup == UniqueConflicts(coachID, start) # {}
        nouser == ~UserExists(userID)
    IN IF ~dup /\ ~nouser THEN {0}
       ELSE (IF dup THEN {ER_DUP_ENTRY} ELSE {})
            \cup (IF nouser THEN {ER_NO_REFERENCED_ROW} ELSE {})

(***************************************************************************)
(* Slot generation (GetSlotsHandler).                                      *)
(***************************************************************************)
\* The loop with t.Before(end) for its test: a remainder shorter than a slot
\* is emitted as a slot.
RECURSIVE WindowSlotsShort(_, _)
WindowSlotsShort(t, end) ==
    IF t >= end THEN << >>
    ELSE <<t>> \o WindowSlotsShort(t + SlotSeconds, end)

\* The loop with !t.Add(30*time.Minute).Before(end) for its exit test: the slot
\* that ends exactly at the window's end is lost.
RECURSIVE WindowSlotsStrict(_, _)
WindowSlotsStrict(t, end) ==
    IF t + SlotSeconds >= end THEN << >>
    ELSE <<t>> \o WindowSlotsStrict(t + SlotSeconds, end)

\* for t := start; !t.Add(30*time.Minute).After(end); t = t.Add(30*time.Minute)
RECURSIVE WindowSlots(_, _)
WindowSlots(t, end) ==
    IF t + SlotSeconds > end THEN << >>
    ELSE <<t>> \o WindowSlots(t + SlotSeconds, end)

\* The window a anchored on the calendar date `day` in the zone tz.
AnchorStart(a, day, tz) ==
    LET sp == ParseClock(a.start_time) IN GoDate(day, sp.hour, sp.min, tz)
AnchorEnd(a, day, tz) ==
    LET ep == ParseClock(a.end_time) IN GoDate(day, ep.hour, ep.min, tz)

\* The loop over avs: the slots of every window, window after window.
RECURSIVE GenerateSlots(_, _, _)
GenerateSlots(avs, day, tz) ==
    IF avs = << >> THEN << >>
    ELSE WindowSlots(AnchorStart(Head(avs), day, tz), AnchorEnd(Head(avs), day, tz))
         \o GenerateSlots(Tail(avs), day, tz)

\* The weekday GetSlotsHandler selects the windows by: date.In(loc).Weekday().
SlotsWeekday(date, tz) == Weekday(tz, date)

\* The slots GetSlotsHandler generates for a coach and a parsed date.
SlotsOf(coachID, date) ==
    LET tz == CoachTimezone(coachID)
    IN GenerateSlots(WindowsFor(coachID, SlotsWeekday(date, tz)), UTCDay(date), tz)

\* The bounds of the ledger read: start of the local day, and 24 hours later.
DayStartUTC(date, tz) == GoDate(UTCDay(date), 0, 0, tz)
DayEndUTC(date, tz) == DayStartUTC(date, tz) + 24 * SecondsPerHour

\* bookedMap: the keys of the bookings read in the day's range.
BookedMap(coachID, date) ==
    LET tz == CoachTimezone(coachID)
    IN {FormatRFC3339(st) :
           st \in BookingsInRange(coachID, DayStartUTC(date, tz), DayEndUTC(date, tz))}

\* The filter that also drops a key the slots after it hold again: every
\* instant is returned once.
RECURSIVE FreeKeysOnce(_, _)
FreeKeysOnce(slots, booked) ==
    IF slots = << >> THEN << >>
    ELSE LET key == FormatRFC3339(Head(slots))
             again == \E k \in DOMAIN Tail(slots) : Tail(slots)[k] = Head(slots)
         IN (IF key \in booked \/ again THEN << >> ELSE <<key>>)
            \o FreeKeysOnce(Tail(slots), booked)

\* resp: the keys of the generated slots that are not in bookedMap.
RECURSIVE FreeKeys(_, _)
FreeKeys(slots, booked) ==
    IF slots = << >> THEN << >>
    ELSE LET key == FormatRFC3339(Head(slots))
         IN (IF key \in booked THEN << >> ELSE <<key>>) \o FreeKeys(Tail(slots), booked)

(***************************************************************************)
(* Requests the model issues.                                              *)
(***************************************************************************)
T0900 == <<"0", "9", ":", "0", "0">>
T1200 == <<"1", "2", ":", "0", "0">>
T2300 == <<"2", "3", ":", "0", "0">>
T2330 == <<"2", "3", ":", "3", "0">>
TNoon == <<"n", "o", "o", "n">>
T900 == <<"9", ":", "0", "0">>
T0920 == <<"0", "9", ":", "2", "0">>
T0930 == <<"0", "9", ":", "3", "0">>
T1000 == <<"1", "0", ":", "0", "0">>
T1015 == <<"1", "0", ":", "1", "5">>
T1100 == <<"1", "1", ":", "0", "0">>
T2200 == <<"2", "2", ":", "0", "0">>

Stamp(day, hour, min, sec, nsec, off) ==
    [wf |-> TRUE, day |-> day, hour |-> hour, min |-> min, sec |-> sec,
     nsec |-> nsec, off |-> off]
BadStamp == [wf |-> FALSE, day |-> 0, hour |-> 0, min |-> 0, sec |-> 0,
             nsec |-> 0, off |-> 0]
BadDate == [wf |-> FALSE, day |-> 0]

\* The coach ids requests name
CoachInputs == 1..MaxRows

\* POST /coaches bodies
TzInputs == {"Asia/Kolkata", "Africa/Cairo", "America/New_York", "Mars/Olympus"}

\* POST /coaches/availability bodies
Window(day, from, to) == [day |-> day, start_time |-> from, end_time |-> to]
AvailInputs ==
    {[coach_id |-> c, day |-> w.day, start_time |-> w.start_time, end_time |-> w.end_time] :
        c \in CoachInputs,
        w \in {Window(2, T0900, T1200), Window(4, T2300, T2330), Window(0, T0900, T1200),
               Window(7, T0900, T1200), Window(2, T1200, T0900), Window(2, TNoon, T1200),
               Window(2, T1000, T900)}}

\* Tue 09:00 written with the offset +05:30: the instant Tue 03:30Z
Tue0900Kolkata == Stamp(0, 9, 0, 0, 0, 19800)

\* POST /users/bookings bodies
GoodStamps ==
    { Stamp(0, 3, 30, 0, 0, 0),        \* Tue 03:30Z = 09:00 in Asia/Kolkata
      Tue0900Kolkata,                  \* the same instant written +05:30
      Stamp(0, 4, 0, 0, 0, 0),         \* Tue 04:00Z = 09:30 in Asia/Kolkata
      Stamp(1, 13, 0, 0, 0, 0),        \* Wed 13:00Z
      Stamp(2, 21, 0, 0, 0, 0) }       \* Thu 21:00Z = the second 23:00 in Africa/Cairo
OddStamps ==
    { Stamp(0, 3, 45, 0, 0, 0),        \* minute 45
      Stamp(0, 3, 30, 1, 0, 0),        \* second 1
      Stamp(0, 3, 30, 0, 1, 0),        \* a fraction of a second
      BadStamp }
\* User 1 writes every instant with the offset Z, user 2 writes Tue 03:30Z with
\* the offset +05:30, user 3 is not in the table users.
BookingInputs ==
    [user_id : {1}, coach_id : CoachInputs,
     datetime : (GoodStamps \ {Tue0900Kolkata}) \cup OddStamps]
    \cup [user_id : {2}, coach_id : CoachInputs, datetime : {Tue0900Kolkata}]
    \cup [user_id : {3}, coach_id : CoachInputs, datetime : {Stamp(0, 3, 30, 0, 0, 0)}]

\* GET /users/slots queries
SlotsInputs ==
    [coach_id : CoachInputs, date : {[wf |-> TRUE, day |-> d] : d \in 0..2} \cup {BadDate}]

\* DELETE /users/bookings/:id
CancelInputs == 1..MaxBookingID

\* GET /users/bookings queries: the user_id parameter, given or not
UserQueryInputs ==
    {[given |-> TRUE, user_id |-> u] : u \in 1..2} \cup {[given |-> FALSE, user_id |-> 0]}

\* The values time.Now() may have when a request is served, in seconds and
\* microseconds.
NowInputs ==
    { [unix |-> 0, usec |-> 0],                \* before every booking
      [unix |-> 12600, usec |-> 0],            \* Tue 03:30:00Z sharp
      [unix |-> 12600, usec |-> 1],            \* a microsecond later
      [unix |-> 3 * 86400, usec |-> 0] }       \* after every booking

(***************************************************************************)
(* Responses.  status is the HTTP status, kind the outcome it stands for.  *)
(* resp holds the response a step has written until it is delivered; the  *)
(* next step is taken after that.                                          *)
(***************************************************************************)
Response(op, status, kind, body) ==
    [op |-> op, status |-> status, kind |-> kind, body |-> body]
NoResponse == Response("none", 0, "none", << >>)
Quiet == resp.op = "none"

\* The status written for each kind of failure.
StatusOf(kind) ==
    CASE kind = "MalformedInput" -> 400
      [] kind = "InvalidTimezone" -> 400
      [] kind = "BoundaryViolation" -> 400
      [] kind = "OutsideAvailability" -> 400
      [] kind = "CoachNotFound" -> 404
      [] kind = "NotFound" -> 404
      [] kind = "SlotConflict" -> 409
      [] kind = "StorageError" -> 500

Failure(op, kind) == Response(op, StatusOf(kind), kind, [errno |-> 0])

Idle == [pc |-> "idle"]
IdleSlots == {i \in DOMAIN reqs : reqs[i].pc = "idle"}

TypeOK ==
    /\ Len(coaches) + Len(avail) <= MaxRows
    /\ nextBookingID \in 1..(MaxBookingID + 1)
    /\ DOMAIN reqs = 1..MaxBookingID
    /\ \A b \in bookings : b.id \in 1..MaxBookingID

Init ==
    /\ coaches = << >>
    /\ users = {1, 2}
    /\ avail = << >>
    /\ bookings = {}
    /\ nextBookingID = 1
    /\ reqs = [i \in 1..MaxBookingID |-> Idle]
    /\ resp = NoResponse
    /\ everBooked = {}

\* Tables as earlier POST /coaches and POST /coaches/availability requests
\* have left them: the coaches' timezones and the rows of coach_availabilities.
StoredWindow(c, w) ==
    [coach_id |-> c, day_of_week |-> w.day, start_time |-> w.start_time,
     end_time |-> w.end_time]
Preloads ==
    { << <<[timezone |-> "Africa/Cairo"]>>, <<StoredWindow(1, Window(4, T2200, T2330))>> >>,
      << <<[timezone |-> "Asia/Kolkata"]>>,
         <<StoredWindow(1, Window(2, T1000, T1100)), StoredWindow(1, Window(2, T0900, T1015))>> >>,
      << <<[timezone |-> "Asia/Kolkata"]>>, <<StoredWindow(1, Window(2, T0900, T0920))>> >>,
      << <<[timezone |-> "Asia/Kolkata"], [timezone |-> "Asia/Kolkata"]>>,
         <<StoredWindow(1, Window(2, T0900, T1200)), StoredWindow(2, Window(2, T0900, T1200))>> >> }

\* The service started on tables that already hold coaches and windows.
InitWide ==
    /\ \E p \in Preloads : coaches = p[1] /\ avail = p[2]
    /\ users = {1, 2}
    /\ bookings = {}
    /\ nextBookingID = 1
    /\ reqs = [i \in 1..MaxBookingID |-> Idle]
    /\ resp = NoResponse
    /\ everBooked = {}

\* c.JSON(status, body): the response is delivered.
Deliver ==
    /\ ~Quiet
    /\ resp' = NoResponse
    /\ UNCHANGED <<coaches, users, avail, bookings, nextBookingID, reqs, everBooked>>

(***************************************************************************)
(* POST /coaches  (CreateCoachHandler)                                     *)
(***************************************************************************)
CreateCoach(tz, fault) ==
    /\ Quiet
    /\ Len(coaches) + Len(avail) < MaxRows
    /\ IF ~LoadLocationOK(tz)
       THEN /\ resp' = Failure("createCoach", "InvalidTimezone")
            /\ UNCHANGED coaches
       ELSE IF fault
       THEN /\ resp' = Failure("createCoach", "StorageError")
            /\ UNCHANGED coaches
       ELSE /\ coaches' = Append(coaches, [timezone |-> tz])
            /\ resp' = Response("createCoach", 201, "OK", [id |-> Len(coaches) + 1])
    /\ UNCHANGED <<users, avail, bookings, nextBookingID, reqs, everBooked>>

(***************************************************************************)
(* POST /coaches/availability  (PostAvailabilityHandler)                   *)
(***************************************************************************)
\* c.ShouldBindJSON(&r) with binding:"required" on every field: a field that
\* is absent or holds the zero value of its type fails the binding.
AvailabilityBindOK(r) ==
    r.coach_id # 0 /\ r.day # 0 /\ r.start_time # << >> /\ r.end_time # << >>

\* The checks of the handler, in order: the kind of the first that fails.
AvailabilityCheck(r) ==
    IF ~AvailabilityBindOK(r) THEN "MalformedInput"
    ELSE IF r.day < 0 \/ r.day > 6 THEN "MalformedInput"
    ELSE IF ~ParseClock(r.start_time).ok THEN "MalformedInput"
    ELSE IF ~ParseClock(r.end_time).ok THEN "MalformedInput"
    ELSE IF StringGE(r.start_time, r.end_time) THEN "MalformedInput"
    ELSE "OK"

PostAvailability(r, fault) ==
    /\ Quiet
    /\ Len(coaches) + Len(avail) < MaxRows
    /\ IF AvailabilityCheck(r) # "OK"
       THEN /\ resp' = Failure("addAvailability", AvailabilityCheck(r))
            /\ UNCHANGED avail
       ELSE IF fault \/ ~CoachExists(r.coach_id)     \* fk_ca_coach
       THEN /\ resp' = Failure("addAvailability", "StorageError")
            /\ UNCHANGED avail
       ELSE /\ avail' = Append(avail, [coach_id |-> r.coach_id, day_of_week |-> r.day,
                                       start_time |-> r.start_time,
                                       end_time |-> r.end_time])
            /\ resp' = Response("addAvailability", 201, "OK", [id |-> Len(avail) + 1])
    /\ UNCHANGED <<coaches, users, bookings, nextBookingID, reqs, everBooked>>

(***************************************************************************)
(* GET /users/slots  (GetSlotsHandler)                                     *)
(***************************************************************************)
\* fault names the storage call that fails, if any: the coach's row, the
\* availability rows or the booking rows.
GetSlotsResult(q, fault) ==
    LET date == ParseDate(q.date)
    IN IF ~date.ok THEN Failure("querySlots", "MalformedInput")
       ELSE IF fault = "lookup" THEN Failure("querySlots", "StorageError")
       ELSE IF ~CoachExists(q.coach_id) THEN Failure("querySlots", "CoachNotFound")
       ELSE IF fault \in {"windows", "bookings"}
       THEN Failure("querySlots", "StorageError")
       ELSE Response("querySlots", 200, "OK",
                     [slots |-> FreeKeys(SlotsOf(q.coach_id, date.unix),
                                         BookedMap(q.coach_id, date.unix)),
                      timezone |-> CoachTimezone(q.coach_id)])

GetSlots(q, fault) ==
    /\ Quiet
    /\ resp' = GetSlotsResult(q, fault)
    /\ UNCHANGED <<coaches, users, avail, bookings, nextBookingID, reqs, everBooked>>

(***************************************************************************)
(* POST /users/bookings  (PostBookingHandler)                              *)
(* A request takes three steps: everything up to db.Begin, the INSERT, and *)
(* the commit.  Between them other requests run.                           *)
(***************************************************************************)
BookingBindOK(r) == r.user_id # 0 /\ r.coach_id # 0

\* The check with startLocal.After(availStart) for its first test: a request
\* at the very start of a window is refused.
BookingAllowedStrict(coachID, start) ==
    LET tz == CoachTimezone(coachID)
        localDate == GoDate(LocalDay(tz, start), 0, 0, tz)
        weekday == Weekday(tz, localDate)
        day == LocalDay(tz, localDate)
        rows == WindowsFor(coachID, weekday)
    IN \E k \in DOMAIN rows :
           /\ start > AnchorStart(rows[k], day, tz)
           /\ start + SlotSeconds <= AnchorEnd(rows[k], day, tz)

\* The check over every window of the coach, whatever its weekday.
BookingAllowedAnyWeekday(coachID, start) ==
    LET tz == CoachTimezone(coachID)
        localDate == GoDate(LocalDay(tz, start), 0, 0, tz)
        day == LocalDay(tz, localDate)
    IN \E k \in DOMAIN avail :
           /\ avail[k].coach_id = coachID
           /\ start >= AnchorStart(avail[k], day, tz)
           /\ start + SlotSeconds <= AnchorEnd(avail[k], day, tz)

\* The availability check: the weekday's windows anchored on the local date
\* of the requested instant, the first that holds [start, start + 30 min].
BookingAllowed(coachID, start) ==
    LET tz == CoachTimezone(coachID)
        localDate == GoDate(LocalDay(tz, start), 0, 0, tz)
        weekday == Weekday(tz, localDate)
        day == LocalDay(tz, localDate)
        rows == WindowsFor(coachID, weekday)
    IN \E k \in DOMAIN rows :
           /\ start >= AnchorStart(rows[k], day, tz)
           /\ start + SlotSeconds <= AnchorEnd(rows[k], day, tz)

\* The checks without the boundary check.
BookingValidationNoBoundary(r, fault) ==
    LET t == ParseRFC3339(r.datetime)
    IN IF ~BookingBindOK(r) THEN "MalformedInput"
       ELSE IF ~t.ok THEN "MalformedInput"
       ELSE IF fault = "lookup" THEN "StorageError"
       ELSE IF ~CoachExists(r.coach_id) THEN "CoachNotFound"
       ELSE IF fault = "windows" THEN "StorageError"
       ELSE IF ~BookingAllowed(r.coach_id, t.unix) THEN "OutsideAvailability"
       ELSE IF fault = "begin" THEN "StorageError"
       ELSE "OK"

\* The checks before the transaction, in order: the kind of the first that
\* fails.  fault names the storage call that fails, if any.
BookingValidation(r, fault) ==
    LET t == ParseRFC3339(r.datetime)
    IN IF ~BookingBindOK(r) THEN "MalformedInput"
       ELSE IF ~t.ok THEN "MalformedInput"
       ELSE IF fault = "lookup" THEN "StorageError"
       ELSE IF ~CoachExists(r.coach_id) THEN "CoachNotFound"
       ELSE IF ~IsOnThirtyMinuteBoundary(t) THEN "BoundaryViolation"
       ELSE IF fault = "windows" THEN "StorageError"
       ELSE IF ~BookingAllowed(r.coach_id, t.unix) THEN "OutsideAvailability"
       ELSE IF fault = "begin" THEN "StorageError"
       ELSE "OK"

\* The handler without its test for error 1062: every failure is generic.
InsertFailureKindGeneric(errno) == "StorageError"

\* The kind a failed INSERT is reported as: errors.As(err, &me) && me.Number == 1062
InsertFailureKind(errno) ==
    IF errno = ER_DUP_ENTRY THEN "SlotConflict" ELSE "StorageError"

\* The requests that hold a transaction and have their INSERT still to come.
Executing == {i \in DOMAIN reqs : reqs[i].pc = "exec"}

PostBookingStart(r, fault) ==
    LET kind == BookingValidation(r, fault)
        start == ParseRFC3339(r.datetime).unix
    IN /\ Quiet
       /\ IF kind # "OK"
          THEN /\ resp' = Failure("createBooking", kind)
               /\ UNCHANGED reqs
          ELSE /\ IdleSlots # {}
               /\ nextBookingID + Cardinality(Executing) <= MaxBookingID
               /\ LET i == CHOOSE k \in IdleSlots : \A j \in IdleSlots : k <= j
                  IN reqs' = [reqs EXCEPT ![i] =
                                 [pc |-> "exec", user_id |-> r.user_id,
                                  coach_id |-> r.coach_id, start |-> start,
                                  end |-> start + SlotSeconds, id |-> 0]]
               /\ resp' = NoResponse
       /\ UNCHANGED <<coaches, users, avail, bookings, nextBookingID, everBooked>>

\* tx.Exec(insertQ, ...): fault is a failure of the call itself (connection
\* lost, lock wait timeout); otherwise the statement waits while another
\* transaction holds an uncommitted row of the same unique key.
PostBookingExec(i, fault) ==
    LET q == reqs[i]
    IN /\ Quiet
       /\ q.pc = "exec"
       /\ IF fault
          THEN /\ resp' = Response("createBooking", 500, "StorageError",
                                   [errno |-> ER_OTHER])
               /\ reqs' = [reqs EXCEPT ![i] = Idle]
               /\ UNCHANGED nextBookingID
          ELSE /\ LockHolders(q.coach_id, q.start) = {}
               /\ nextBookingID' = nextBookingID + 1
               /\ \E errno \in InsertErrors(q.user_id, q.coach_id, q.start) :
                      IF errno = 0
                      THEN /\ reqs' = [reqs EXCEPT ![i].pc = "commit",
                                                   ![i].id = nextBookingID]
                           /\ resp' = NoResponse
                      ELSE /\ reqs' = [reqs EXCEPT ![i] = Idle]     \* defer tx.Rollback()
                           /\ resp' = Response("createBooking",
                                               StatusOf(InsertFailureKind(errno)),
                                               InsertFailureKind(errno), [errno |-> errno])
       /\ UNCHANGED <<coaches, users, avail, bookings, everBooked>>

\* The row a transaction has inserted.
RowOf(q) ==
    [id |-> q.id, user_id |-> q.user_id, coach_id |-> q.coach_id,
     start_time |-> q.start, end_time |-> q.end]

\* A commit whose failure leaves the row behind.
CommittedAnyway(q, fault) == bookings \cup {RowOf(q)}

\* The ledger after tx.Commit(): with the row, or as it was when the commit
\* fails and the deferred rollback discards the row.
Committed(q, fault) == IF fault THEN bookings ELSE bookings \cup {RowOf(q)}

PostBookingCommit(i, fault) ==
    LET q == reqs[i]
    IN /\ Quiet
       /\ q.pc = "commit"
       /\ reqs' = [reqs EXCEPT ![i] = Idle]
       /\ bookings' = Committed(q, fault)
       /\ IF fault
          THEN /\ resp' = Response("createBooking", 500, "StorageError",
                                   [errno |-> ER_OTHER])
               /\ UNCHANGED everBooked
          ELSE /\ resp' = Response("createBooking", 201, "OK",
                                   [errno |-> 0, start |-> FormatRFC3339(q.start)])
               /\ everBooked' = everBooked \cup {<<q.coach_id, q.start>>}
       /\ UNCHANGED <<coaches, users, avail, nextBookingID>>

(***************************************************************************)
(* GET /users/bookings  (GetUserBookingsHandler)                           *)
(***************************************************************************)
\* start_time >= ? with time.Now().UTC() for the parameter
NotBefore(start, now) == start > now.unix \/ (start = now.unix /\ now.usec = 0)

\* WHERE user_id = ? AND start_time >= ?
UserRows(userID, now) ==
    {b \in bookings : b.user_id = userID /\ NotBefore(b.start_time, now)}

\* The SELECT without its ORDER BY: the rows in any order.
OrderingsUnsorted(rows) ==
    {s \in [1..Cardinality(rows) -> rows] : \A i, j \in DOMAIN s : i # j => s[i] # s[j]}

\* ORDER BY start_time ASC: the orders the rows may come in (rows of equal
\* start_time in either order).
Orderings(rows) ==
    {s \in [1..Cardinality(rows) -> rows] :
        /\ \A i, j \in DOMAIN s : i # j => s[i] # s[j]
        /\ \A i, j \in DOMAIN s : i < j => s[i].start_time <= s[j].start_time}

\* The element of the response for a row (created_at is no part of the model).
BookingRow(b) ==
    [id |-> b.id, coach_id |-> b.coach_id, start |-> FormatRFC3339(b.start_time),
     end |-> FormatRFC3339(b.end_time)]

GetUserBookings(u, now, fault) ==
    /\ Quiet
    /\ IF ~u.given
       THEN resp' = Failure("listUserBookings", "MalformedInput")
       ELSE IF fault
       THEN resp' = Failure("listUserBookings", "StorageError")
       ELSE \E s \in Orderings(UserRows(u.user_id, now)) :
                resp' = Response("listUserBookings", 200, "OK",
                                 [bookings |-> [k \in DOMAIN s |-> BookingRow(s[k])]])
    /\ UNCHANGED <<coaches, users, avail, bookings, nextBookingID, reqs, everBooked>>

(***************************************************************************)
(* DELETE /users/bookings/:id  (CancelBookingHandler)                      *)
(***************************************************************************)
\* DELETE FROM bookings WHERE id <= ?
DeleteTargetsUpTo(id) == {b \in bookings : b.id <= id}

\* DELETE FROM bookings WHERE id = ?: the rows it removes.
DeleteTargets(id) == {b \in bookings : b.id = id}

\* The kind reported for res.RowsAffected() = n.
CancelKind(n) == IF n = 0 THEN "NotFound" ELSE "OK"

CancelBooking(id, fault) ==
    /\ Quiet
    /\ IF fault
       THEN /\ resp' = Failure("cancelBooking", "StorageError")
            /\ UNCHANGED bookings
       ELSE /\ \A i \in Pending : reqs[i].id # id    \* waits for an uncommitted row
            /\ bookings' = bookings \ DeleteTargets(id)
            /\ resp' = IF CancelKind(Cardinality(DeleteTargets(id))) = "NotFound"
                       THEN Failure("cancelBooking", "NotFound")
                       ELSE Response("cancelBooking", 200, "OK", [status |-> "cancelled"])
    /\ UNCHANGED <<coaches, users, avail, nextBookingID, reqs, everBooked>>

(***************************************************************************)
(* The system: any handler step, on any request.                           *)
(***************************************************************************)
Next ==
    \/ \E tz \in TzInputs, fault \in BOOLEAN : CreateCoach(tz, fault)
    \/ \E r \in AvailInputs, fault \in BOOLEAN : PostAvailability(r, fault)
    \/ \E q \in SlotsInputs, fault \in {"none", "lookup", "windows", "bookings"} :
           GetSlots(q, fault)
    \/ \E r \in BookingInputs, fault \in {"none", "lookup", "windows", "begin"} :
           PostBookingStart(r, fault)
    \/ \E u \in UserQueryInputs, now \in NowInputs, fault \in BOOLEAN :
           GetUserBookings(u, now, fault)
    \/ \E i \in 1..MaxBookingID, fault \in BOOLEAN : PostBookingExec(i, fault)
    \/ \E i \in 1..MaxBookingID, fault \in BOOLEAN : PostBookingCommit(i, fault)
    \/ \E id \in CancelInputs, fault \in BOOLEAN : CancelBooking(id, fault)
    \/ Deliver

Spec == Init /\ [][Next]_vars

\* Slot queries, bookings and cancellations only, on tables that already
\* hold coaches and windows.
NextWide ==
    \/ \E q \in SlotsInputs, fault \in {"none", "lookup", "windows", "bookings"} :
           GetSlots(q, fault)
    \/ \E r \in BookingInputs, fault \in {"none", "lookup", "windows", "begin"} :
           PostBookingStart(r, fault)
    \/ \E i \in 1..MaxBookingID, fault \in BOOLEAN : PostBookingExec(i, fault)
    \/ \E i \in 1..MaxBookingID, fault \in BOOLEAN : PostBookingCommit(i, fault)
    \/ \E id \in CancelInputs, fault \in BOOLEAN : CancelBooking(id, fault)
    \/ Deliver

SpecWide == InitWide /\ [][NextWide]_vars

\* The service started on one Asia/Kolkata coach whose two Tuesday windows
\* overlap: 09:30-10:00 was stored first, 09:00-10:00 second.
InitOverlap ==
    /\ coaches = <<[timezone |-> "Asia/Kolkata"]>>
    /\ avail = <<StoredWindow(1, Window(2, T0930, T1000)),
                 StoredWindow(1, Window(2, T0900, T1000))>>
    /\ users = {1, 2}
    /\ bookings = {}
    /\ nextBookingID = 1
    /\ reqs = [i \in 1..MaxBookingID |-> Idle]
    /\ resp = NoResponse
    /\ everBooked = {}

SpecOverlap == InitOverlap /\ [][NextWide]_vars

\* Every request is served by a goroutine of its own, which the scheduler
\* keeps running: a storage call that can return does return, and a response
\* that was written is delivered.
FairSpec ==
    /\ Spec
    /\ WF_vars(Deliver)
    /\ \A i \in 1..MaxBookingID :
           /\ SF_vars(\E fault \in BOOLEAN : PostBookingExec(i, fault))
           /\ SF_vars(\E fault \in BOOLEAN : PostBookingCommit(i, fault))

(***************************************************************************)
(* Properties.                                                             *)
(***************************************************************************)
Range(seq) == {seq[k] : k \in DOMAIN seq}
KeyOf(q) == <<q.coach_id, q.start>>
Tue0330 == Stamp(0, 3, 30, 0, 0, 0)

\* The response just written is the 200 response of GetSlotsHandler to q.
Answered(q) ==
    /\ resp.op = "querySlots" /\ resp.kind = "OK"
    /\ GetSlotsResult(q, "none").kind = "OK"
    /\ resp.body = GetSlotsResult(q, "none").body

\* C1: in every reachable state no two bookings of the same coach have the
\* same start instant.
C1_UniqueCoachStart ==
    \A b1, b2 \in bookings :
        (b1.coach_id = b2.coach_id /\ b1.start_time = b2.start_time) => b1 = b2

\* Two bookings of one coach, at different instants, stand in the ledger.
C1_Witness ==
    /\ \E b1, b2 \in bookings : b1.coach_id = b2.coach_id /\ b1.start_time # b2.start_time
    /\ nextBookingID > MaxBookingID

\* C2: of the createBooking requests that race for one (coach, start), at most
\* one holds or has committed the row, and a request whose INSERT meets the
\* committed row of another is answered SlotConflict (409), not StorageError.
C2_OneWinner ==
    /\ \A i, j \in Pending : KeyOf(reqs[i]) = KeyOf(reqs[j]) => i = j
    /\ \A i \in Pending : UniqueConflicts(reqs[i].coach_id, reqs[i].start) = {}
    /\ \A i \in Executing :
           (UniqueConflicts(reqs[i].coach_id, reqs[i].start) # {} /\ UserExists(reqs[i].user_id))
               => \A errno \in InsertErrors(reqs[i].user_id, reqs[i].coach_id, reqs[i].start) :
                      /\ InsertFailureKind(errno) = "SlotConflict"
                      /\ StatusOf(InsertFailureKind(errno)) = 409
    /\ (resp.op = "createBooking" /\ resp.body.errno = ER_DUP_ENTRY)
           => (resp.status = 409 /\ resp.kind = "SlotConflict")

\* Two requests for one (coach, start) are in flight: one holds the
\* uncommitted row, the other waits with its INSERT.
C2_Witness ==
    \E i \in Pending, j \in Executing : KeyOf(reqs[i]) = KeyOf(reqs[j])

\* C3 as stated: once a createBooking at (C, T) has succeeded, every later
\* INSERT attempt at (C, T) is refused (SlotConflict; a failure of the storage
\* itself is let pass as StorageError).
C3_AlwaysConflict ==
    [][\A i \in DOMAIN reqs :
          (reqs[i].pc = "exec" /\ reqs'[i].pc # "exec" /\ KeyOf(reqs[i]) \in everBooked)
              => resp'.kind \in {"SlotConflict", "StorageError"}]_vars

\* C3 as amended: while a booking at (C, T) is in the ledger, an INSERT attempt
\* at (C, T) never succeeds and leaves the ledger as it is; it is answered
\* SlotConflict when the user exists and the storage call itself does not
\* fail, StorageError otherwise.
C3_ConflictWhileBooked ==
    [][\A i \in DOMAIN reqs :
          (/\ reqs[i].pc = "exec" /\ reqs'[i].pc # "exec"
           /\ UniqueConflicts(reqs[i].coach_id, reqs[i].start) # {})
              => /\ reqs'[i].pc = "idle"
                 /\ bookings' = bookings
                 /\ resp'.op = "createBooking"
                 /\ resp'.kind \in {"SlotConflict", "StorageError"}
                 /\ (UserExists(reqs[i].user_id) /\ resp'.body.errno # ER_OTHER)
                        => (resp'.kind = "SlotConflict" /\ resp'.status = 409)]_vars

\* A second user's attempt at a booked (coach, start) has been answered 409.
C3_Witness ==
    /\ resp.op = "createBooking" /\ resp.status = 409
    /\ \E b \in bookings : b.user_id = 1
    /\ nextBookingID > MaxBookingID

\* C4: a booking whose start is one of the slots generated for (coach, date)
\* is not among the slots querySlots(coach, date) returns.
C4_Exclusion ==
    \A q \in SlotsInputs :
        Answered(q) =>
            \A b \in bookings :
                (/\ b.coach_id = q.coach_id
                 /\ b.start_time \in Range(SlotsOf(q.coach_id, ParseDate(q.date).unix)))
                    => FormatRFC3339(b.start_time) \notin Range(resp.body.slots)

\* C5: a createBooking request whose instant is not on a 30-minute boundary
\* is answered BoundaryViolation, whatever else it holds, and inserts nothing
\* (a failure of the storage itself is let pass as StorageError).
C5_Boundary ==
    [][\A r \in BookingInputs, fault \in {"none", "lookup", "windows", "begin"} :
          (/\ ParseRFC3339(r.datetime).ok
           /\ ~IsOnThirtyMinuteBoundary(ParseRFC3339(r.datetime))
           /\ PostBookingStart(r, fault))
              => /\ resp'.kind \in {"BoundaryViolation", "StorageError"}
                 /\ UNCHANGED <<bookings, reqs>>]_vars

\* The local time of day, in seconds, of an instant and of a clock string.
LocalTimeOfDay(tz, sec) == LocalSeconds(tz, sec) % SecondsPerDay
ClockSeconds(s) == ParseClock(s).hour * SecondsPerHour + ParseClock(s).min * SecondsPerMinute

\* C6: every slot returned for a date of weekday w falls, in the coach's local
\* time, on that date, inside a weekday-w window [a, b) of the coach, at a
\* plus a multiple of 30 minutes.
C6_SlotsInWindow ==
    \A q \in SlotsInputs :
        Answered(q) =>
            LET tz == CoachTimezone(q.coach_id)
                w == WeekdayOfDay(q.date.day)
            IN \A key \in Range(resp.body.slots) :
                   LET s == ParseRFC3339(key).unix
                   IN /\ LocalDay(tz, s) = q.date.day
                      /\ \E k \in DOMAIN avail :
                             /\ avail[k].coach_id = q.coach_id
                             /\ avail[k].day_of_week = w
                             /\ ClockSeconds(avail[k].start_time) <= LocalTimeOfDay(tz, s)
                             /\ LocalTimeOfDay(tz, s) < ClockSeconds(avail[k].end_time)
                             /\ (LocalTimeOfDay(tz, s) - ClockSeconds(avail[k].start_time))
                                    % SlotSeconds = 0

\* C7: every slot querySlots returns passes the checks of createBooking for
\* that coach and any existing user.
C7_SlotsBookable ==
    \A q \in SlotsInputs :
        Answered(q) =>
            \A key \in Range(resp.body.slots), u \in users :
                BookingValidation([user_id |-> u, coach_id |-> q.coach_id, datetime |-> key],
                                  "none") = "OK"

\* C8: a createBooking step that answers an error leaves the ledger as it
\* was; a validation failure is answered by the step that takes no
\* transaction and issues no INSERT; a step that answers success adds exactly
\* one booking, and nothing else ever adds one.
ValidationKinds ==
    {"MalformedInput", "CoachNotFound", "BoundaryViolation", "OutsideAvailability"}
C8_AllOrNothing ==
    [][/\ (resp'.op = "createBooking" /\ resp'.kind # "OK") => bookings' = bookings
       /\ (resp'.op = "createBooking" /\ resp'.kind \in ValidationKinds)
              => (reqs' = reqs /\ nextBookingID' = nextBookingID)
       /\ (resp'.op = "createBooking" /\ resp'.kind = "OK")
              => \E b \in bookings' : b \notin bookings /\ bookings' = bookings \cup {b}
       /\ ~(bookings' \subseteq bookings)
              => (resp'.op = "createBooking" /\ resp'.kind = "OK")]_vars

\* A commit has failed: the row it had inserted is in no table.
C8_Witness ==
    /\ resp.op = "createBooking" /\ resp.kind = "StorageError"
    /\ resp.body.errno = ER_OTHER
    /\ nextBookingID = 2 /\ bookings = {} /\ Pending = {} /\ Executing = {}
    /\ Len(avail) > 0

\* C9: the worked example.  A coach in Asia/Kolkata whose only window is
\* Tuesday 09:00-12:00: with no booking of the coach, a Tuesday's slots are
\* 03:30, 04:00, 04:30, 05:00, 05:30, 06:00 UTC in this order and booking the
\* first passes every check and is inserted; with the first booked, the same
\* request is refused with SlotConflict (409) and the slots are the other five.
ExampleCoach(c) ==
    /\ CoachExists(c)
    /\ CoachTimezone(c) = "Asia/Kolkata"
    /\ SelectSeq(avail, LAMBDA a : a.coach_id = c)
           = << [coach_id |-> c, day_of_week |-> 2, start_time |-> T0900,
                 end_time |-> T1200] >>
ExampleSlots ==
    << Stamp(0, 3, 30, 0, 0, 0), Stamp(0, 4, 0, 0, 0, 0), Stamp(0, 4, 30, 0, 0, 0),
       Stamp(0, 5, 0, 0, 0, 0), Stamp(0, 5, 30, 0, 0, 0), Stamp(0, 6, 0, 0, 0, 0) >>
StartsOf(c) == {b.start_time : b \in {x \in bookings : x.coach_id = c}}
C9_WorkedExample ==
    \A c \in CoachInputs :
        ExampleCoach(c) =>
            LET q == [coach_id |-> c, date |-> [wf |-> TRUE, day |-> 0]]
                r == [user_id |-> 1, coach_id |-> c, datetime |-> Tue0330]
                first == ParseRFC3339(Tue0330).unix
            IN /\ StartsOf(c) = {}
                   => /\ GetSlotsResult(q, "none").status = 200
                      /\ GetSlotsResult(q, "none").body.slots = ExampleSlots
                      /\ BookingValidation(r, "none") = "OK"
                      /\ InsertErrors(1, c, first) = {0}
               /\ StartsOf(c) = {first}
                   => /\ BookingValidation(r, "none") = "OK"
                      /\ InsertErrors(1, c, first) = {ER_DUP_ENTRY}
                      /\ InsertFailureKind(ER_DUP_ENTRY) = "SlotConflict"
                      /\ StatusOf("SlotConflict") = 409
                      /\ GetSlotsResult(q, "none").body.slots = Tail(ExampleSlots)

\* The example's last step: the first slot is booked and the query has
\* returned the other five.
C9_Witness ==
    /\ ExampleCoach(1)
    /\ StartsOf(1) = {ParseRFC3339(Tue0330).unix}
    /\ resp.op = "querySlots" /\ resp.kind = "OK"
    /\ resp.body.slots = Tail(ExampleSlots)

\* C10: cancelBooking(id), when the storage call does not fail, removes the
\* booking with that id and answers success if it is present, answers
\* NotFound and changes nothing if it is not; no other booking is removed and
\* no availability window changes.
C10_Cancel ==
    [][\A id \in CancelInputs :
          CancelBooking(id, FALSE)
              => /\ avail' = avail /\ coaches' = coaches
                 /\ bookings' = {b \in bookings : b.id # id}
                 /\ IF \E b \in bookings : b.id = id
                    THEN resp'.kind = "OK" /\ resp'.status = 200
                    ELSE /\ resp'.kind = "NotFound" /\ resp'.status = 404
                         /\ bookings' = bookings]_vars

\* A booking was cancelled and the cancel was repeated: NotFound, with another
\* booking still in the ledger.
C10_Witness ==
    /\ resp.op = "cancelBooking" /\ resp.kind = "NotFound"
    /\ Cardinality(everBooked) = 2
    /\ Cardinality(bookings) = 1

\* The slots of one window anchored on a date, ascending.
SlotsOfWindow(a, day, tz) == WindowSlots(AnchorStart(a, day, tz), AnchorEnd(a, day, tz))

C13_UserBookings ==
    [][resp'.op = "listUserBookings" =>
          \A u \in UserQueryInputs, now \in NowInputs :
              (u.given /\ GetUserBookings(u, now, FALSE))
                  => LET out == resp'.body.bookings
                         due == {b \in bookings :
                                    /\ b.user_id = u.user_id
                                    \* a start is a whole second
                                    /\ b.start_time >= now.unix + (IF now.usec > 0 THEN 1 ELSE 0)}
                     IN /\ resp'.status = 200
                        /\ Len(out) = Cardinality(due)
                        /\ {out[k].id : k \in DOMAIN out} = {b.id : b \in due}
                        /\ \A k \in DOMAIN out :
                               \E b \in due :
                                   /\ out[k].id = b.id /\ out[k].coach_id = b.coach_id
                                   /\ ParseRFC3339(out[k].start).unix = b.start_time
                                   /\ ParseRFC3339(out[k].end).unix = b.end_time
                        /\ \A i, j \in DOMAIN out :
                               i < j => ParseRFC3339(out[i].start).unix
                                            <= ParseRFC3339(out[j].start).unix
                        /\ bookings' = bookings]_vars

\* A user's two bookings were listed, the one made later first because it
\* starts earlier.
C13_Witness ==
    /\ resp.op = "listUserBookings" /\ resp.kind = "OK"
    /\ Len(resp.body.bookings) = 2
    /\ resp.body.bookings[1].id = 2 /\ resp.body.bookings[2].id = 1

\* One of two users' bookings was listed: the other user's is not in the answer.
C13_OtherUser ==
    /\ resp.op = "listUserBookings" /\ resp.kind = "OK"
    /\ Len(resp.body.bookings) = 1
    /\ \E b1, b2 \in bookings : b1.user_id # b2.user_id

\* The length in minutes of a window anchored on a date: the time that
\* elapses from its anchored start to its anchored end.
AnchoredMinutes(a, day, tz) ==
    (AnchorEnd(a, day, tz) - AnchorStart(a, day, tz)) \div SecondsPerMinute

\* floor(L / 30) for a window of L minutes, none for a window that ends
\* before it starts.
WholeSlots(L) == IF L < 0 THEN 0 ELSE L \div 30

\* C14: a window whose anchored start and end are L minutes apart yields
\* exactly floor(L / 30) slots, the k-th at the anchored start plus k times 30
\* minutes, each ending by the anchored end: none for a window shorter than
\* 30 minutes, and a remainder shorter than 30 minutes yields no slot.  With
\* no booking of the coach and one window selected, querySlots answers with
\* these slots.
C14_SlotCount ==
    \A q \in SlotsInputs :
        Answered(q) =>
            LET tz == CoachTimezone(q.coach_id)
                day == q.date.day
                rows == WindowsFor(q.coach_id, SlotsWeekday(ParseDate(q.date).unix, tz))
            IN /\ \A i \in DOMAIN avail :
                      LET a == avail[i]
                          slots == SlotsOfWindow(a, day, tz)
                          n == WholeSlots(AnchoredMinutes(a, day, tz))
                      IN a.coach_id = q.coach_id =>
                             /\ Len(slots) = n
                             /\ \A k \in DOMAIN slots :
                                    /\ slots[k] = AnchorStart(a, day, tz) + (k - 1) * SlotSeconds
                                    /\ slots[k] + SlotSeconds <= AnchorEnd(a, day, tz)
                             /\ AnchoredMinutes(a, day, tz) < 30 => slots = << >>
                             /\ n > 0 => AnchorEnd(a, day, tz) - (slots[n] + SlotSeconds)
                                             < SlotSeconds
               /\ (Len(rows) = 1 /\ StartsOf(q.coach_id) = {})
                      => Len(resp.body.slots)
                             = WholeSlots(AnchoredMinutes(rows[1], day, tz))

\* A date whose only window is 20 minutes long was queried: no slot.
C14_Witness ==
    /\ resp.op = "querySlots" /\ resp.kind = "OK"
    /\ resp.body.slots = << >>
    /\ \E i \in DOMAIN avail :
           /\ avail[i].start_time = T0900 /\ avail[i].end_time = T0920
           /\ WindowsFor(avail[i].coach_id, 2) = <<avail[i]>>
    /\ bookings = {}

\* A date with a window of 75 minutes was queried: two slots from it, no third.
C14_Remainder ==
    /\ resp.op = "querySlots" /\ resp.kind = "OK"
    /\ \E i \in DOMAIN avail : avail[i].start_time = T0900 /\ avail[i].end_time = T1015
    /\ Len(resp.body.slots) = 4
    /\ bookings = {}

\* Instants on a 30-minute boundary around the windows of the model: Tuesday
\* 02:30Z to 06:30Z, Wednesday 13:00Z, Thursday 18:30Z to 22:00Z.
AlignedInstants ==
    {k * SlotSeconds : k \in 5..13} \cup {SecondsPerDay + 26 * SlotSeconds}
        \cup {2 * SecondsPerDay + k * SlotSeconds : k \in 37..44}

\* Some window of the coach for the weekday of R's local date, anchored on
\* that date, holds [R, R + 30 min].
WindowHolds(c, R) ==
    LET tz == CoachTimezone(c)
        day == LocalDay(tz, R)
    IN \E i \in DOMAIN avail :
           /\ avail[i].coach_id = c
           /\ avail[i].day_of_week = WeekdayOfDay(day)
           /\ R >= AnchorStart(avail[i], day, tz)
           /\ R + SlotSeconds <= AnchorEnd(avail[i], day, tz)

\* C15: the availability check of createBooking accepts an instant R on a
\* 30-minute boundary if and only if some window of the coach for the weekday
\* of R's local date, anchored on that date, has windowStart <= R and
\* R + 30 min <= windowEnd; a request that no window holds is answered
\* OutsideAvailability (400) and no transaction or insert is started for it.
C15_Availability ==
    [][/\ (resp'.kind = "OutsideAvailability" \/ Executing' \ Executing # {})
              => \A c \in DOMAIN coaches, R \in AlignedInstants :
                     BookingAllowed(c, R) <=> WindowHolds(c, R)
       /\ (resp'.op = "createBooking" \/ Executing' \ Executing # {})
              => \A r \in BookingInputs :
                 (/\ ParseRFC3339(r.datetime).ok
                  /\ IsOnThirtyMinuteBoundary(ParseRFC3339(r.datetime))
                  /\ CoachExists(r.coach_id)
                  /\ PostBookingStart(r, "none"))
                     => IF WindowHolds(r.coach_id, ParseRFC3339(r.datetime).unix)
                        THEN /\ resp' = NoResponse
                             /\ \E i \in Executing' \ Executing :
                                    reqs'[i].start = ParseRFC3339(r.datetime).unix
                        ELSE /\ resp'.kind = "OutsideAvailability" /\ resp'.status = 400
                             /\ UNCHANGED <<bookings, reqs, nextBookingID>>]_vars

\* A request outside every window was refused, after one inside a window
\* was booked.
C15_Witness ==
    /\ resp.op = "createBooking" /\ resp.kind = "OutsideAvailability"
    /\ bookings # {}

\* C16: the weekday querySlots selects windows by is the calendar weekday of
\* the requested date, in every timezone, and so the weekday createBooking
\* derives for an instant of that local date.
C16_Weekday ==
    \A q \in SlotsInputs :
        Answered(q) =>
            LET tz == CoachTimezone(q.coach_id)
                noon == GoDate(q.date.day, 12, 0, tz)
            IN /\ SlotsWeekday(ParseDate(q.date).unix, tz) = WeekdayOfDay(q.date.day)
               /\ SlotsWeekday(ParseDate(q.date).unix, tz)
                      = Weekday(tz, GoDate(LocalDay(tz, noon), 0, 0, tz))

\* C17: a createBooking attempt reaches its insert only after its timestamp
\* parsed, the boundary check passed and the availability check passed; it
\* makes at most one insert attempt, after which it ends either inserted (201)
\* or rejected (SlotConflict or StorageError) and is never tried again; and
\* every attempt ends.
C17_Attempt ==
    /\ [][\A i \in DOMAIN reqs :
              /\ (reqs[i].pc = "idle" /\ reqs'[i].pc # "idle")
                     => /\ reqs'[i].pc = "exec"
                        /\ nextBookingID' = nextBookingID /\ bookings' = bookings
                        /\ \E r \in BookingInputs :
                               LET t == ParseRFC3339(r.datetime)
                               IN /\ t.ok
                                  /\ IsOnThirtyMinuteBoundary(t)
                                  /\ CoachExists(r.coach_id)
                                  /\ BookingAllowed(r.coach_id, t.unix)
                                  /\ reqs'[i].start = t.unix
                                  /\ reqs'[i].coach_id = r.coach_id
                                  /\ reqs'[i].user_id = r.user_id
              /\ (reqs[i].pc = "exec" /\ reqs'[i] # reqs[i])
                     => /\ reqs'[i].pc \in {"commit", "idle"}
                        /\ bookings' = bookings
                        /\ reqs'[i].pc = "commit" => nextBookingID' = nextBookingID + 1
                        /\ reqs'[i].pc = "idle" =>
                               /\ resp'.op = "createBooking"
                               /\ resp'.kind \in {"SlotConflict", "StorageError"}
              /\ (reqs[i].pc = "commit" /\ reqs'[i] # reqs[i])
                     => /\ reqs'[i].pc = "idle"
                        /\ nextBookingID' = nextBookingID
                        /\ resp'.op = "createBooking"
                        /\ \/ resp'.kind = "OK" /\ RowOf(reqs[i]) \in bookings'
                           \/ resp'.kind = "StorageError" /\ bookings' = bookings]_vars
    /\ \A i \in 1..MaxBookingID : (reqs[i].pc # "idle") ~> (reqs[i].pc = "idle")

\* One attempt has ended inserted while another has its insert still to come.
C17_Witness ==
    /\ resp.op = "createBooking" /\ resp.kind = "OK"
    /\ Executing # {}

\* C18: every window stored through addAvailability starts, as a time of
\* day, strictly before it ends.
C18_StartBeforeEnd ==
    \A i \in DOMAIN avail :
        ClockSeconds(avail[i].start_time) < ClockSeconds(avail[i].end_time)

\* C19: an addAvailability request with valid times for an existing coach is
\* stored when its weekday is one of 0..6, Sunday (0) included, and refused
\* with MalformedInput when it is not.
C19_Weekdays ==
    [][\A r \in AvailInputs :
          (/\ ParseClock(r.start_time).ok /\ ParseClock(r.end_time).ok
           /\ ClockSeconds(r.start_time) < ClockSeconds(r.end_time)
           /\ CoachExists(r.coach_id)
           /\ PostAvailability(r, FALSE))
              => IF r.day \in 0..6
                 THEN /\ resp'.kind = "OK"
                      /\ avail' = Append(avail, StoredWindow(r.coach_id, r))
                 ELSE /\ resp'.kind = "MalformedInput"
                      /\ avail' = avail]_vars

\* C20: querySlots returns every generated slot that no booking of the coach
\* currently holds, whatever was booked and cancelled before and whatever
\* other coaches have booked; and a slot whose booking was cancelled can be
\* inserted again.
C20_ReflectsLedger ==
    /\ \A q \in SlotsInputs :
           Answered(q) =>
               \A s \in Range(SlotsOf(q.coach_id, ParseDate(q.date).unix)) :
                   (s \notin StartsOf(q.coach_id))
                       => FormatRFC3339(s) \in Range(resp.body.slots)
    /\ \A key \in everBooked :
           (key[2] \notin StartsOf(key[1]))
               => \A u \in users : InsertErrors(u, key[1], key[2]) = {0}

\* Coach 1's Tuesday was queried after its 03:30Z booking was cancelled and
\* while coach 2 holds a booking at 03:30Z: all six slots are returned.
C20_Witness ==
    /\ resp.op = "querySlots" /\ resp.kind = "OK"
    /\ Len(resp.body.slots) = 6
    /\ <<1, 12600>> \in everBooked
    /\ \E b \in bookings : b.coach_id = 2 /\ b.start_time = 12600

\* The second of the absolute instant a well-formed timestamp string denotes:
\* its clock reading less its written offset.
WrittenInstant(s) ==
    (s.day * SecondsPerDay + s.hour * SecondsPerHour + s.min * SecondsPerMinute + s.sec)
        - s.off

\* Two createBooking bodies for the same coach whose timestamps are written
\* with different offsets and denote the same instant.
SameSlotOtherOffset(r1, r2) ==
    /\ r1.datetime.wf /\ r2.datetime.wf
    /\ r1.coach_id = r2.coach_id
    /\ r1.datetime.off # r2.datetime.off
    /\ WrittenInstant(r1.datetime) = WrittenInstant(r2.datetime)
    /\ r1.datetime.nsec = r2.datetime.nsec

\* The pairs of createBooking bodies that name the same slot with different
\* offsets.
OffsetPairs ==
    {<<p[1], p[2]>> :
        p \in {q \in BookingInputs \X BookingInputs : SameSlotOtherOffset(q[1], q[2])}}

\* C21: createBooking works on the UTC instant of the requested timestamp.
\* Two requests for the same coach that write the same instant with different
\* offsets meet the same verdict of the checks and, when accepted, carry the same
\* (coach, start) pair into the insert; while a booking made from one of them
\* is in the ledger, the insert of the other ends with SlotConflict and leaves
\* the ledger alone; and a successful call stores the instant and reports it
\* written with offset Z, which is not the caller's string whenever the
\* caller wrote another offset.
C21_Normalized ==
    [][/\ (resp'.op = "createBooking" \/ Executing' # Executing) =>
              \A p \in OffsetPairs :
                  PostBookingStart(p[1], "none")
                      => /\ BookingValidation(p[2], "none") = BookingValidation(p[1], "none")
                         /\ \A i \in Executing' \ Executing :
                                /\ reqs'[i].coach_id = p[2].coach_id
                                /\ reqs'[i].start = WrittenInstant(p[2].datetime)
       /\ \A i \in Executing \ Executing' :
              \A p \in OffsetPairs :
                  (/\ reqs[i].user_id = p[1].user_id
                   /\ reqs[i].coach_id = p[1].coach_id
                   /\ reqs[i].start = WrittenInstant(p[1].datetime)
                   /\ \E b \in bookings : /\ b.user_id = p[2].user_id
                                           /\ b.coach_id = p[2].coach_id
                                           /\ b.start_time = WrittenInstant(p[2].datetime)
                   /\ UserExists(p[1].user_id)
                   /\ PostBookingExec(i, FALSE))
                      => /\ resp'.kind = "SlotConflict"
                         /\ bookings' = bookings
       /\ \A i \in Pending \ Pending' :
              PostBookingCommit(i, FALSE) =>
                  /\ resp'.kind = "OK"
                  /\ resp'.body.start.off = 0
                  /\ resp'.body.start.nsec = 0
                  /\ WrittenInstant(resp'.body.start) = reqs[i].start
                  /\ \E b \in bookings' \ bookings : b.start_time = reqs[i].start
                  /\ \A r \in BookingInputs :
                         (/\ r.datetime.wf
                          /\ r.user_id = reqs[i].user_id
                          /\ WrittenInstant(r.datetime) = reqs[i].start
                          /\ r.datetime.off # 0)
                             => resp'.body.start # r.datetime]_vars

\* User 2, who wrote Tue 09:00+05:30, has been answered 201 with the start
\* 03:30Z, while the request of user 1 for the same coach, written 03:30Z, has
\* passed the checks and has its insert still to come.
C21_Witness ==
    /\ resp.op = "createBooking" /\ resp.kind = "OK"
    /\ resp.body.start = Tue0330
    /\ resp.body.start # Tue0900Kolkata
    /\ \E b \in bookings, i \in Executing :
           /\ b.user_id = 2 /\ b.start_time = WrittenInstant(Tue0900Kolkata)
           /\ reqs[i].user_id = 1
           /\ reqs[i].coach_id = b.coach_id
           /\ reqs[i].start = b.start_time
\* How often x occurs in seq.
Count(seq, x) == Cardinality({k \in DOMAIN seq : seq[k] = x})

\* C22: querySlots removes no duplicate.  Every instant no booking of the
\* coach holds is returned once for each selected window that produces it,
\* and the answer runs window after window in the order the windows were
\* read, ascending in time within each window: its entries can be assigned to
\* windows that produce them so that the window never goes back and, within
\* one window, time strictly advances.
C22_NoDeduplication ==
    \A q \in SlotsInputs :
        Answered(q) =>
            LET tz == CoachTimezone(q.coach_id)
                day == q.date.day
                rows == WindowsFor(q.coach_id, SlotsWeekday(ParseDate(q.date).unix, tz))
                out == resp.body.slots
                produced(k) == Range(SlotsOfWindow(rows[k], day, tz))
            IN /\ \A k \in DOMAIN rows :
                      \A s \in produced(k) :
                          (s \notin StartsOf(q.coach_id))
                              => Count(out, FormatRFC3339(s))
                                     = Cardinality({j \in DOMAIN rows : s \in produced(j)})
               /\ \E w \in [DOMAIN out -> DOMAIN rows] :
                      /\ \A k \in DOMAIN out : WrittenInstant(out[k]) \in produced(w[k])
                      /\ \A k \in DOMAIN out, l \in DOMAIN out :
                             k < l => \/ w[k] < w[l]
                                      \/ /\ w[k] = w[l]
                                         /\ WrittenInstant(out[k]) < WrittenInstant(out[l])

\* Tuesday was queried for the coach with the windows 09:30-10:00 and
\* 09:00-10:00 and no booking: 09:30 (04:00Z) of the first window, then 09:00
\* and 09:30 of the second.
C22_Witness ==
    /\ resp.op = "querySlots" /\ resp.kind = "OK"
    /\ resp.body.slots = << Stamp(0, 4, 0, 0, 0, 0), Tue0330, Stamp(0, 4, 0, 0, 0, 0) >>
    /\ Len(WindowsFor(1, 2)) = 2
    /\ StartsOf(1) = {}
\* C23: every booking in the ledger ends 30 minutes after it starts, starts
\* at UTC minute 0 or 30 with zero seconds, names a coach that exists, and
\* lies, from start to start + 30 minutes, inside a window of its coach for
\* the weekday of its local date in the coach's timezone, anchored on that
\* date.
C23_WellFormed ==
    \A b \in bookings :
        /\ b.end_time = b.start_time + SlotSeconds
        /\ UTCMinute(b.start_time) \in {0, 30}
        /\ UTCSecond(b.start_time) = 0
        /\ CoachExists(b.coach_id)
        /\ WindowHolds(b.coach_id, b.start_time)

\* The ledger holds a booking of an Africa/Cairo coach at Thursday 21:00Z,
\* 23:00 on the coach's clock after it was set back.
C23_Witness ==
    \E b \in bookings :
        /\ CoachTimezone(b.coach_id) = "Africa/Cairo"
        /\ b.start_time = 2 * SecondsPerDay + 21 * SecondsPerHour
        /\ b.end_time = b.start_time + SlotSeconds
====
